---- MODULE Spec2Model ----
(***************************************************************************)
(* Curve evaluators of the repository: evaluateBezierCurve and             *)
(* adaptiveSubdivision (src/src/legacygl.ts), uniformBSpline and           *)
(* quadraticUniformBSpline (src/src/bspline.ts), cubicCatmullRomSpline and *)
(* catmullRomImpl (src/src/App.tsx).                                       *)
(*                                                                         *)
(* Numbers are fixed point: the integer k stands for the real k / Unit,    *)
(* and a store into a vec3 rounds to that resolution as a Float32Array     *)
(* rounds to its own (to the nearest value, a tie to the even one).        *)
(* Points are gl-matrix vec3 objects, i.e. mutable objects with identity:  *)
(* the heap maps an address to the three coordinates of the object at that *)
(* address, and an array reference to the sequence of addresses the array  *)
(* holds.  vec3.clone allocates, vec3.lerp writes through its out          *)
(* argument, Array.pop and Array.reverse change the array they are called  *)
(* on.                                                                     *)
(***************************************************************************)
EXTENDS Integers, Sequences, FiniteSets, TLC

VARIABLES heap, ps, ps0, call, prev, ncalls, subdiv, app

vars == <<heap, ps, ps0, call, prev, ncalls, subdiv, app>>

(* ------------------------------ bounds --------------------------------- *)

\* longest control-point sequence the caller passes
MaxLen == 4

\* longest parameter sequence the caller passes
MaxTs == 2

\* number of calls a caller that repeats calls makes
MaxCalls == 2

\* number of bisections up to which a call of adaptiveSubdivision is followed
MaxDepth == 12

(* ------------------------- program constants --------------------------- *)

\* catmullRomImpl samples each segment at t = i / 20, i = 0..20
NSeg == 20

\* adaptiveSubdivision bisects when E > 1e-5, i.e. E * 100000 > 1
ThresholdInv == 100000

(* ------------------------------ numbers -------------------------------- *)

\* resolution of the fixed-point numbers: fine enough for MaxLen - 1 rounds
\* of interpolation at a multiple of 1/4 and for t = i / NSeg to be exact
Unit == NSeg * (4 ^ (MaxLen - 1))

One == Unit

Half == Unit \div 2

Quarter == Unit \div 4

\* x * y of two fixed-point numbers
FMul(x, y) == (x * y) \div Unit

RECURSIVE SqrtSearch(_, _, _)
SqrtSearch(x, lo, hi) ==
    IF lo >= hi THEN lo
    ELSE LET mid == (lo + hi + 1) \div 2
         IN  IF mid * mid <= x THEN SqrtSearch(x, mid, hi)
                               ELSE SqrtSearch(x, lo, mid - 1)

\* largest r with r * r <= x
ISqrt(x) == SqrtSearch(x, 0, IF x < 46340 THEN x ELSE 46340)

(* ------------------------------- heap ---------------------------------- *)

\* vec3.create / vec3.fromValues: the new object is at address Len(vec) + 1
NewVec(h, v) == [h EXCEPT !.vec = Append(@, v)]

LastVec(h) == Len(h.vec)

\* a new array: its reference is Len(arr) + 1
NewArr(h, s) == [h EXCEPT !.arr = Append(@, s)]

LastArr(h) == Len(h.arr)

\* vec3.clone that leaves the new object at vec3.create's zeros
vec3cloneZero(h, a) == NewVec(h, <<0, 0, 0>>)

\* vec3.clone(a)
vec3clone(h, a) == NewVec(h, h.vec[a])

\* LerpVal with the weights of a and b exchanged
LerpValSwapped(a, b, t) == <<b[1] + FMul(t, a[1] - b[1]),
                             b[2] + FMul(t, a[2] - b[2]),
                             b[3] + FMul(t, a[3] - b[3])>>

\* LerpVal that interpolates x and y only
LerpValNoZ(a, b, t) == <<a[1] + FMul(t, b[1] - a[1]),
                         a[2] + FMul(t, b[2] - a[2]),
                         a[3]>>

\* num / den (den > 0) rounded to the nearest integer, a tie to the even one:
\* the rounding of a store into a Float32Array, the numbers k / Unit standing
\* for the values the array can hold
RoundHalfEven(num, den) ==
    LET q == num \div den
        r == num % den
    IN  IF 2 * r < den THEN q
        ELSE IF 2 * r > den THEN q + 1
        ELSE IF q % 2 = 0 THEN q ELSE q + 1

\* the value vec3.lerp stores: a + t * (b - a), component by component, each
\* rounded once when it is stored in out
LerpVal(a, b, t) == <<RoundHalfEven(a[1] * Unit + t * (b[1] - a[1]), Unit),
                      RoundHalfEven(a[2] * Unit + t * (b[2] - a[2]), Unit),
                      RoundHalfEven(a[3] * Unit + t * (b[3] - a[3]), Unit)>>

\* vec3.lerp(out, a, b, t): writes the object at address out
vec3lerp(h, out, a, b, t) ==
    [h EXCEPT !.vec[out] = LerpVal(h.vec[a], h.vec[b], t)]

\* vec3.dist(a, b), at the resolution of the numbers
vec3dist(h, a, b) ==
    LET dx == h.vec[b][1] - h.vec[a][1]
        dy == h.vec[b][2] - h.vec[a][2]
        dz == h.vec[b][3] - h.vec[a][3]
    IN  ISqrt(dx * dx + dy * dy + dz * dz)

\* xs.pop()
ArrPop(h, r) == [h EXCEPT !.arr[r] = SubSeq(@, 1, Len(@) - 1)]

\* xs.push(a)
ArrPush(h, r, a) == [h EXCEPT !.arr[r] = Append(@, a)]

RECURSIVE Reverse(_)
Reverse(s) == IF s = <<>> THEN <<>> ELSE Append(Reverse(Tail(s)), Head(s))

\* xs.reverse() left out
ArrReverseNone(h, r) == h

\* xs.reverse(): in place
ArrReverse(h, r) == [h EXCEPT !.arr[r] = Reverse(@)]

RECURSIVE MapCloneFrom(_, _, _, _)
MapCloneFrom(h, src, i, dst) ==
    IF i > Len(h.arr[src]) THEN h
    ELSE LET h1 == vec3clone(h, h.arr[src][i])
         IN  MapCloneFrom(ArrPush(h1, dst, LastVec(h1)), src, i + 1, dst)

\* xs.slice() in place of xs.map(vec3.clone): a new array of the same objects
MapCloneShallow(h, src) == NewArr(h, h.arr[src])

\* xs.map(vec3.clone): a new array (at LastArr of the result) of new objects
MapClone(h, src) ==
    LET h1 == NewArr(h, <<>>)
    IN  MapCloneFrom(h1, src, 1, LastArr(h1))

\* the coordinates of the objects a sequence of addresses names
Vals(h, s) == [i \in 1..Len(s) |-> h.vec[s[i]]]

(* ------------------------ evaluateBezierCurve -------------------------- *)

\* for (let i = 0; i < points.length - 1; i++) vec3.lerp(points[i], points[i], points[i + 1], t)
\* i counts from 1 here; n is the value of points.length - 1
RECURSIVE LerpPass(_, _, _, _, _)
LerpPass(h, points, i, n, t) ==
    IF i > n THEN h
    ELSE LerpPass(vec3lerp(h, h.arr[points][i], h.arr[points][i], h.arr[points][i + 1], t),
                  points, i + 1, n, t)

\* BezierReduce that stops one round early
RECURSIVE BezierReduceShort(_, _, _)
BezierReduceShort(h, points, t) ==
    IF Len(h.arr[points]) > 2
    THEN BezierReduceShort(ArrPop(LerpPass(h, points, 1, Len(h.arr[points]) - 1, t), points),
                           points, t)
    ELSE h

\* while (points.length > 1) { for ...; points.pop(); }
RECURSIVE BezierReduce(_, _, _)
BezierReduce(h, points, t) ==
    IF Len(h.arr[points]) > 1
    THEN BezierReduce(ArrPop(LerpPass(h, points, 1, Len(h.arr[points]) - 1, t), points),
                      points, t)
    ELSE h

\* BezierLoop that puts each point in front of the earlier ones
RECURSIVE BezierLoopPrepend(_, _, _, _, _)
BezierLoopPrepend(h, psRef, ts, k, result) ==
    IF k > Len(ts) THEN [heap |-> h, thrown |-> FALSE, ret |-> result]
    ELSE LET h1 == MapClone(h, psRef)
             points == LastArr(h1)
             h2 == BezierReduce(h1, points, ts[k])
         IN  BezierLoopPrepend(h2, psRef, ts, k + 1, <<h2.arr[points][1]>> \o result)

\* for (const t of ts) { points = ps.map(vec3.clone); while ...; result.push(points[0]); }
RECURSIVE BezierLoop(_, _, _, _, _)
BezierLoop(h, psRef, ts, k, result) ==
    IF k > Len(ts) THEN [heap |-> h, thrown |-> FALSE, ret |-> result]
    ELSE LET h1 == MapClone(h, psRef)
             points == LastArr(h1)
             h2 == BezierReduce(h1, points, ts[k])
         IN  BezierLoop(h2, psRef, ts, k + 1, Append(result, h2.arr[points][1]))

evaluateBezierCurve(h, psRef, ts) ==
    IF Len(h.arr[psRef]) < 2
    THEN [heap |-> h, thrown |-> TRUE, ret |-> <<>>]
    ELSE BezierLoop(h, psRef, ts, 1, <<>>)

(* ------------------- uniformBSpline, quadraticUniformBSpline ----------- *)

\* for (let i = 0; i < points.length - 1; i++) vec3.lerp(points[i], points[i], points[i + 1], t)
RECURSIVE UniformLerpPass(_, _, _, _, _)
UniformLerpPass(h, points, i, n, t) ==
    IF i > n THEN h
    ELSE UniformLerpPass(vec3lerp(h, h.arr[points][i], h.arr[points][i], h.arr[points][i + 1], t),
                         points, i + 1, n, t)

\* UniformReduce that stops when 2 points remain
RECURSIVE UniformReduceShort(_, _, _)
UniformReduceShort(h, points, t) ==
    IF Len(h.arr[points]) > 2
    THEN UniformReduceShort(ArrPop(UniformLerpPass(h, points, 1, Len(h.arr[points]) - 1, t), points),
                            points, t)
    ELSE h

\* while (points.length > 1) { for ...; points.pop(); }
RECURSIVE UniformReduce(_, _, _)
UniformReduce(h, points, t) ==
    IF Len(h.arr[points]) > 1
    THEN UniformReduce(ArrPop(UniformLerpPass(h, points, 1, Len(h.arr[points]) - 1, t), points),
                       points, t)
    ELSE h

\* for (const t of ts) { points = ps.map(vec3.clone); while ...; result.push(points[0]); }
RECURSIVE UniformLoop(_, _, _, _, _)
UniformLoop(h, psRef, ts, k, result) ==
    IF k > Len(ts) THEN [heap |-> h, thrown |-> FALSE, ret |-> result]
    ELSE LET h1 == MapClone(h, psRef)
             points == LastArr(h1)
             h2 == UniformReduce(h1, points, ts[k])
         IN  UniformLoop(h2, psRef, ts, k + 1, Append(result, h2.arr[points][1]))

uniformBSpline(h, psRef, ts) ==
    IF Len(h.arr[psRef]) < 2
    THEN [heap |-> h, thrown |-> TRUE, ret |-> <<>>]
    ELSE UniformLoop(h, psRef, ts, 1, <<>>)

\* for (let i = 0; i < points.length - 2; i++) vec3.lerp(points[i], points[i], points[i + 1], t)
\* n is the value of points.length - 2
RECURSIVE QuadraticLerpPass(_, _, _, _, _)
QuadraticLerpPass(h, points, i, n, t) ==
    IF i > n THEN h
    ELSE QuadraticLerpPass(vec3lerp(h, h.arr[points][i], h.arr[points][i], h.arr[points][i + 1], t),
                           points, i + 1, n, t)

\* the loop with the pass of evaluateBezierCurve, over all neighbours
RECURSIVE QuadraticReduceFull(_, _, _)
QuadraticReduceFull(h, points, t) ==
    IF Len(h.arr[points]) > 2
    THEN QuadraticReduceFull(ArrPop(QuadraticLerpPass(h, points, 1, Len(h.arr[points]) - 1, t),
                                    points),
                             points, t)
    ELSE h

\* while (points.length > 2) { for ...; points.pop(); }
RECURSIVE QuadraticReduce(_, _, _)
QuadraticReduce(h, points, t) ==
    IF Len(h.arr[points]) > 2
    THEN QuadraticReduce(ArrPop(QuadraticLerpPass(h, points, 1, Len(h.arr[points]) - 2, t), points),
                         points, t)
    ELSE h

\* for (const t of ts) { points = ps.map(vec3.clone); while ...; result.push(points[1]); }
RECURSIVE QuadraticLoop(_, _, _, _, _)
QuadraticLoop(h, psRef, ts, k, result) ==
    IF k > Len(ts) THEN [heap |-> h, thrown |-> FALSE, ret |-> result]
    ELSE LET h1 == MapClone(h, psRef)
             points == LastArr(h1)
             h2 == QuadraticReduce(h1, points, ts[k])
         IN  QuadraticLoop(h2, psRef, ts, k + 1, Append(result, h2.arr[points][2]))

\* quadraticUniformBSpline with the minimum of uniformBSpline
quadraticUniformBSplineMin2(h, psRef, ts) ==
    IF Len(h.arr[psRef]) < 2
    THEN [heap |-> h, thrown |-> TRUE, ret |-> <<>>]
    ELSE QuadraticLoop(h, psRef, ts, 1, <<>>)

quadraticUniformBSpline(h, psRef, ts) ==
    IF Len(h.arr[psRef]) < 3
    THEN [heap |-> h, thrown |-> TRUE, ret |-> <<>>]
    ELSE QuadraticLoop(h, psRef, ts, 1, <<>>)

(* ------------------------ adaptiveSubdivision -------------------------- *)

\* lp += vec3.dist(top[i], top[i + 1]) for i = 0 .. top.length - 2
RECURSIVE PolygonLength(_, _, _)
PolygonLength(h, top, i) ==
    IF i >= Len(h.arr[top]) THEN 0
    ELSE vec3dist(h, h.arr[top][i], h.arr[top][i + 1]) + PolygonLength(h, top, i + 1)

\* the test with >= for >
NotFlatOrEqual(n, lp, lc) == (n - 1) * (lp - lc) >= ((n + 1) * Unit) \div ThresholdInv

\* (n - 1) / (n + 1) * (lp - lc) > 1e-5, with lp and lc in units of 1 / Unit:
\* (n - 1) * (lp - lc) * ThresholdInv > (n + 1) * Unit, written without the
\* large product (a * K > b iff a > b \div K for integers a, b >= 0, K > 0)
NotFlat(n, lp, lc) == (n - 1) * (lp - lc) > ((n + 1) * Unit) \div ThresholdInv

\* for (let i = 0; i < points.length - 1; i++) vec3.lerp(points[i], points[i], points[i + 1], 0.5)
RECURSIVE BisectLerpPass(_, _, _, _)
BisectLerpPass(h, points, i, n) ==
    IF i > n THEN h
    ELSE BisectLerpPass(vec3lerp(h, h.arr[points][i], h.arr[points][i], h.arr[points][i + 1], Half),
                        points, i + 1, n)

\* the loop of the bisection, ended one round early
RECURSIVE BisectLoopShort(_, _, _, _)
BisectLoopShort(h, points, p1s, p2s) ==
    IF Len(h.arr[points]) > 2
    THEN LET h1 == ArrPop(BisectLerpPass(h, points, 1, Len(h.arr[points]) - 1), points)
             h2 == vec3clone(h1, h1.arr[points][1])
             h3 == ArrPush(h2, p1s, LastVec(h2))
             h4 == vec3clone(h3, h3.arr[points][Len(h3.arr[points])])
             h5 == ArrPush(h4, p2s, LastVec(h4))
         IN  BisectLoopShort(h5, points, p1s, p2s)
    ELSE h

\* while (points.length > 1) { for ... lerp at 0.5; points.pop();
\*     p1s.push(vec3.clone(points[0])); p2s.push(vec3.clone(points[points.length - 1])); }
RECURSIVE BisectLoop(_, _, _, _)
BisectLoop(h, points, p1s, p2s) ==
    IF Len(h.arr[points]) > 1
    THEN LET h1 == ArrPop(BisectLerpPass(h, points, 1, Len(h.arr[points]) - 1), points)
             h2 == vec3clone(h1, h1.arr[points][1])
             h3 == ArrPush(h2, p1s, LastVec(h2))
             h4 == vec3clone(h3, h3.arr[points][Len(h3.arr[points])])
             h5 == ArrPush(h4, p2s, LastVec(h4))
         IN  BisectLoop(h5, points, p1s, p2s)
    ELSE h

\* stack.push(p2s.reverse()); stack.push(p1s); in the other order
PushHalvesLeftFirst(stack, p1s, p2s) == stack \o <<p1s, p2s>>

\* stack.push(p2s.reverse()); stack.push(p1s); (the reversal is ArrReverse)
PushHalves(stack, p1s, p2s) == stack \o <<p2s, p1s>>

\* one round of while (stack.length > 0) { ... }; p1s and p2s are the arrays
\* the round pushed, 0 when it pushed none
SubdivStep(h, stack, out) ==
    LET top == stack[Len(stack)]
        rest == SubSeq(stack, 1, Len(stack) - 1)
        len == Len(h.arr[top])
    IN  IF len < 2
        THEN [heap |-> h, stack |-> rest, out |-> out, thrown |-> TRUE,
              p1s |-> 0, p2s |-> 0]
        ELSE IF len = 2
        THEN [heap |-> h, stack |-> rest, out |-> Append(out, h.arr[top][2]), thrown |-> FALSE,
              p1s |-> 0, p2s |-> 0]
        ELSE LET last == h.arr[top][len]
                 lp == PolygonLength(h, top, 1)
                 lc == vec3dist(h, h.arr[top][1], last)
                 n == len - 1
             IN  IF NotFlat(n, lp, lc)
                 THEN LET h1 == MapClone(h, top)
                          points == LastArr(h1)
                          h2 == vec3clone(h1, h1.arr[top][1])
                          h3 == NewArr(h2, <<LastVec(h2)>>)
                          p1s == LastArr(h3)
                          h4 == vec3clone(h3, last)
                          h5 == NewArr(h4, <<LastVec(h4)>>)
                          p2s == LastArr(h5)
                          h6 == BisectLoop(h5, points, p1s, p2s)
                          h7 == ArrReverse(h6, p2s)
                      IN  [heap |-> h7, stack |-> PushHalves(rest, p1s, p2s), out |-> out,
                           thrown |-> FALSE, p1s |-> p1s, p2s |-> p2s]
                 ELSE [heap |-> h, stack |-> rest, out |-> Append(out, last), thrown |-> FALSE,
                       p1s |-> 0, p2s |-> 0]

RECURSIVE SubdivLoop(_, _, _)
SubdivLoop(h, stack, out) ==
    IF Len(stack) > 0
    THEN LET s == SubdivStep(h, stack, out)
         IN  IF s.thrown THEN [heap |-> s.heap, thrown |-> TRUE, ret |-> <<>>]
                         ELSE SubdivLoop(s.heap, s.stack, s.out)
    ELSE [heap |-> h, thrown |-> FALSE, ret |-> out]

adaptiveSubdivision(h, psRef) ==
    IF Len(h.arr[psRef]) < 2
    THEN [heap |-> h, thrown |-> TRUE, ret |-> <<>>]
    ELSE IF Len(h.arr[psRef]) = 2
    THEN LET h1 == MapClone(h, psRef)
         IN  [heap |-> h1, thrown |-> FALSE, ret |-> h1.arr[LastArr(h1)]]
    ELSE LET h1 == vec3clone(h, h.arr[psRef][1])
         IN  SubdivLoop(h1, <<psRef>>, <<LastVec(h1)>>)

(* ----------------- cubicCatmullRomSpline, catmullRomImpl --------------- *)

\* not-a-number, the result of 0 / 0; every operation on it yields it again
NaN == -(2 ^ 30)

\* x / y of two fixed-point numbers, y # 0
FDiv(x, y) == (x * Unit) \div y

\* x ** alpha with 0 ** 0 taken for 0
PowZeroOfZero(x, alpha) ==
    IF x = 0 THEN 0
    ELSE IF alpha = 0 THEN One
    ELSE IF alpha = One THEN x
    ELSE ISqrt(x * Unit)

\* x ** alpha for the exponents cubicCatmullRomSpline passes: 0, 1 and 0.5
Pow(x, alpha) ==
    IF alpha = 0 THEN One
    ELSE IF alpha = One THEN x
    ELSE ISqrt(x * Unit)

\* m1[c] = (1 - tension) * (p2[c] - p1[c] + t12 * ((p1[c] - p0[c]) / t01 - (p2[c] - p0[c]) / (t01 + t12)))
\* A divisor is 0 only when the points it separates coincide, so that the
\* dividend is 0 as well: the quotient is 0 / 0 = NaN, and so is m1[c]
Tangent1(p0, p1, p2, t01, t12, tension, c) ==
    IF t01 = 0 \/ t01 + t12 = 0 THEN NaN
    ELSE FMul(One - tension,
              p2[c] - p1[c]
              + FMul(t12, FDiv(p1[c] - p0[c], t01) - FDiv(p2[c] - p0[c], t01 + t12)))

\* m2[c] = (1 - tension) * (p2[c] - p1[c] + t12 * ((p3[c] - p2[c]) / t23 - (p3[c] - p1[c]) / (t23 + t12)))
Tangent2(p1, p2, p3, t12, t23, tension, c) ==
    IF t23 = 0 \/ t23 + t12 = 0 THEN NaN
    ELSE FMul(One - tension,
              p2[c] - p1[c]
              + FMul(t12, FDiv(p3[c] - p2[c], t23) - FDiv(p3[c] - p1[c], t23 + t12)))

\* a[c] = 2 * (p1[c] - p2[c]) + m1[c] + m2[c]
CoefA(p1, p2, m1, m2, c) ==
    IF m1[c] = NaN \/ m2[c] = NaN THEN NaN
    ELSE 2 * (p1[c] - p2[c]) + m1[c] + m2[c]

\* CoefB with the weights of m1 and m2 exchanged
CoefBExchanged(p1, p2, m1, m2, c) ==
    IF m1[c] = NaN \/ m2[c] = NaN THEN NaN
    ELSE -3 * (p1[c] - p2[c]) - m1[c] - 2 * m2[c]

\* b[c] = -3 * (p1[c] - p2[c]) - 2 * m1[c] - m2[c]
CoefB(p1, p2, m1, m2, c) ==
    IF m1[c] = NaN \/ m2[c] = NaN THEN NaN
    ELSE -3 * (p1[c] - p2[c]) - 2 * m1[c] - m2[c]

\* ((a[c] * t + b[c]) * t + c[c]) * t + d[c], for the coefficients co
Cubic(co, t, c) ==
    IF co.a[c] = NaN \/ co.b[c] = NaN \/ co.c[c] = NaN THEN NaN
    ELSE FMul(FMul(FMul(co.a[c], t) + co.b[c], t) + co.c[c], t) + co.d[c]

\* SampleLoop that stops before i = 20
RECURSIVE SampleLoopShort(_, _, _, _)
SampleLoopShort(h, co, i, result) ==
    IF i >= NSeg THEN [heap |-> h, ret |-> result]
    ELSE LET t == (i * Unit) \div NSeg
         IN  SampleLoopShort(NewVec(h, <<Cubic(co, t, 1), Cubic(co, t, 2), Cubic(co, t, 3)>>),
                             co, i + 1, Append(result, Len(h.vec) + 1))

\* for (let i = 0; i <= 20; ++i) { t = i / 20; result.push(vec3.fromValues(x, y, z)); }
RECURSIVE SampleLoop(_, _, _, _)
SampleLoop(h, co, i, result) ==
    IF i > NSeg THEN [heap |-> h, ret |-> result]
    ELSE LET t == (i * Unit) \div NSeg
         IN  SampleLoop(NewVec(h, <<Cubic(co, t, 1), Cubic(co, t, 2), Cubic(co, t, 3)>>),
                        co, i + 1, Append(result, Len(h.vec) + 1))

\* the coefficients a, b, c = m1, d = p1 of the segment of p0, p1, p2, p3.
\* m1, m2, a and b are objects of the call that never leave it, and c and d
\* are only read: all are values here
Coefficients(p0, p1, p2, p3, t01, t12, t23, tension) ==
    LET m1 == <<Tangent1(p0, p1, p2, t01, t12, tension, 1),
                Tangent1(p0, p1, p2, t01, t12, tension, 2),
                Tangent1(p0, p1, p2, t01, t12, tension, 3)>>
        m2 == <<Tangent2(p1, p2, p3, t12, t23, tension, 1),
                Tangent2(p1, p2, p3, t12, t23, tension, 2),
                Tangent2(p1, p2, p3, t12, t23, tension, 3)>>
    IN  [a |-> <<CoefA(p1, p2, m1, m2, 1), CoefA(p1, p2, m1, m2, 2), CoefA(p1, p2, m1, m2, 3)>>,
         b |-> <<CoefB(p1, p2, m1, m2, 1), CoefB(p1, p2, m1, m2, 2), CoefB(p1, p2, m1, m2, 3)>>,
         c |-> m1,
         d |-> p1]

\* the body of for (let k = 0; k < ps.length - 3; k++); k counts from 1 here
CatmullSegment(h, psRef, k, alpha, tension, result) ==
    SampleLoop(h,
               Coefficients(h.vec[h.arr[psRef][k]], h.vec[h.arr[psRef][k + 1]],
                            h.vec[h.arr[psRef][k + 2]], h.vec[h.arr[psRef][k + 3]],
                            Pow(vec3dist(h, h.arr[psRef][k], h.arr[psRef][k + 1]), alpha),
                            Pow(vec3dist(h, h.arr[psRef][k + 1], h.arr[psRef][k + 2]), alpha),
                            Pow(vec3dist(h, h.arr[psRef][k + 2], h.arr[psRef][k + 3]), alpha),
                            tension),
               0, result)

RECURSIVE CatmullLoop(_, _, _, _, _, _)
CatmullLoop(h, psRef, k, alpha, tension, result) ==
    IF k > Len(h.arr[psRef]) - 3 THEN [heap |-> h, ret |-> result]
    ELSE LET s == CatmullSegment(h, psRef, k, alpha, tension, result)
         IN  CatmullLoop(s.heap, psRef, k + 1, alpha, tension, s.ret)

catmullRomImpl(h, psRef, alpha, tension) == CatmullLoop(h, psRef, 1, alpha, tension, <<>>)

\* Alphas with the exponents of chordal and centripetal exchanged
AlphasExchanged == <<0, Half, One>>

\* the exponents of the three calls of catmullRomImpl, in the order of the
\* calls: uniform, chordal, centripetal
Alphas == <<0, One, Half>>

Flags(knotParametrization) ==
    <<knotParametrization.uniform, knotParametrization.chordal,
      knotParametrization.centripetal>>

\* the three steps  xResult = []; if (knotParametrization.x) xResult.push(...catmullRomImpl(ps, alpha, 0))
\* one after the other, on the heap the step before left
RECURSIVE CatmullResults(_, _, _, _, _)
CatmullResults(h, psRef, flags, i, results) ==
    IF i > 3
    THEN [heap |-> h, thrown |-> FALSE,
          ret |-> [uniformResult |-> results[1], chordalResult |-> results[2],
                   centripetalResult |-> results[3]]]
    ELSE IF flags[i]
    THEN LET r == catmullRomImpl(h, psRef, Alphas[i], 0)
         IN  CatmullResults(r.heap, psRef, flags, i + 1, Append(results, r.ret))
    ELSE CatmullResults(h, psRef, flags, i + 1, Append(results, <<>>))

cubicCatmullRomSpline(h, psRef, knotParametrization) ==
    IF Len(h.arr[psRef]) < 4
    THEN [heap |-> h, thrown |-> TRUE, ret |-> <<>>]
    ELSE CatmullResults(h, psRef, Flags(knotParametrization), 1, <<>>)

(* ------------------------------ callers -------------------------------- *)

\* the control points the caller passes
Pts == {<<0, 0, 0>>, <<One, 0, 0>>, <<2 * One, One, One>>}

RECURSIVE SeqsUpTo(_, _)
SeqsUpTo(S, n) ==
    IF n = 0 THEN {<<>>}
    ELSE LET shorter == SeqsUpTo(S, n - 1)
         IN  shorter \cup {Append(s, x) : s \in {q \in shorter : Len(q) = n - 1}, x \in S}

\* the parameter values the caller passes
TVals == {0, Quarter, Half, One}

\* the parameter sequences the caller passes
AllTs == SeqsUpTo(TVals, MaxTs)

\* the selectors: every subset of the three flags
Selectors == [uniform : BOOLEAN, chordal : BOOLEAN, centripetal : BOOLEAN]

\* the heap of a caller that holds the control points vals in one array
CallerHeap(vals) == [vec |-> vals, arr |-> <<[i \in 1..Len(vals) |-> i]>>]

NoCall == [fn |-> "none", ts |-> <<>>, thrown |-> FALSE, ret |-> <<>>, vals |-> <<>>]

\* the record of a call of fn that ended as r: what it was given, whether it
\* threw, the objects it returned and their coordinates at the return
Returned(fn, ts, r) ==
    [fn |-> fn, ts |-> ts, thrown |-> r.thrown, ret |-> r.ret,
     vals |-> Vals(r.heap, r.ret)]

ReturnedSamples(sel, r) ==
    [fn |-> "cubicCatmullRomSpline", ts |-> <<>>, sel |-> sel, thrown |-> r.thrown,
     ret |-> r.ret,
     vals |-> IF r.thrown THEN <<>>
              ELSE [uniformResult |-> Vals(r.heap, r.ret.uniformResult),
                    chordalResult |-> Vals(r.heap, r.ret.chordalResult),
                    centripetalResult |-> Vals(r.heap, r.ret.centripetalResult)]]

\* no call of adaptiveSubdivision is under way
NoSubdivision == [pc |-> "idle", stack |-> <<>>, out |-> <<>>, span |-> {}, at |-> <<>>]

\* three control points in the plane z = 0
PlanePs == <<<<0, 0, 0>>, <<One, 0, 0>>, <<2 * One, One, 0>>>>

(* --------------------- App and BezierCurveCanvas ----------------------- *)

\* null and undefined where the state holds a number
Null == -1
Undefined == -2

\* React.useState(100), minNSteps, maxNSteps
InitialNSteps == 100
minNSteps == 2
maxNSteps == 20000

\* findFocus takes a control point closer than the square root of 1 / FocusRadiusInv
FocusRadiusInv == 100

\* most control points the user adds up to, and most files the user uploads
MaxPoints == 4
MaxUploads == 1

\* xy before the first pointer move and after the pointer left the canvas
NoXY == <<>>

\* an array element that was never written
Hole == <<>>

\* the cursor states; a state without focus has focus Null
Grab == [cursorStyle |-> "grab", focus |-> Null,
         translateFrom |-> <<0, 0, 0>>, translation |-> <<0, 0, 0>>]

Pointer(focus) == [Grab EXCEPT !.cursorStyle = "pointer", !.focus = focus]

Move(focus) == [Grab EXCEPT !.cursorStyle = "move", !.focus = focus]

Grabbing(translateFrom, translation) ==
    [Grab EXCEPT !.cursorStyle = "grabbing", !.translateFrom = translateFrom,
                 !.translation = translation]

\* no configuration was downloaded yet
NoFile == [keys |-> {}]

\* the state of App and of the canvas it mounts, after the first render:
\* the nine states of App, the cursor, leftClicked and xy of the canvas;
\* redraw says that a dependency of the draw effect changed since it ran,
\* crashed that a render or an effect threw, file is the text the last
\* download wrote (as the object it parses to), saved the state of App at
\* that download, uploads the number of uploads and event the handler or
\* effect that ran last
InitialApp ==
    [curveType |-> "Bezier",
     nSteps |-> InitialNSteps,
     showControlPoints |-> TRUE,
     showSamplePoints |-> TRUE,
     adaptiveSubdivision |-> FALSE,
     adaptiveNSteps |-> Null,
     controlPoints |-> <<<<0, Half, 0>>, <<-Half, -Half, 0>>, <<Half, -Half, 0>>>>,
     catmullRomControlPoints |-> <<<<-Half, Half, 0>>, <<-Quarter, -Half, 0>>,
                                   <<Quarter, -Half, 0>>, <<Half, Half, 0>>>>,
     knotParametrization |-> [uniform |-> TRUE, chordal |-> FALSE, centripetal |-> FALSE],
     cursor |-> Grab,
     leftClicked |-> FALSE,
     xy |-> NoXY,
     redraw |-> TRUE,
     crashed |-> FALSE,
     file |-> NoFile,
     saved |-> <<>>,
     uploads |-> 0,
     runs |-> 0,
     event |-> "mount"]

\* the states of App
AppState(a) ==
    [curveType |-> a.curveType, nSteps |-> a.nSteps,
     showControlPoints |-> a.showControlPoints, showSamplePoints |-> a.showSamplePoints,
     adaptiveSubdivision |-> a.adaptiveSubdivision, adaptiveNSteps |-> a.adaptiveNSteps,
     controlPoints |-> a.controlPoints,
     catmullRomControlPoints |-> a.catmullRomControlPoints,
     knotParametrization |-> a.knotParametrization]

\* for i ... if (dx * dx + dy * dy < 0.01) return i; return null
RECURSIVE findFocusFrom(_, _, _, _)
findFocusFrom(x, y, controlPoints, i) ==
    IF i >= Len(controlPoints) THEN Null
    ELSE LET dx == x - controlPoints[i + 1][1]
             dy == y - controlPoints[i + 1][2]
         IN  IF dx * dx + dy * dy < (Unit * Unit) \div FocusRadiusInv
             THEN i
             ELSE findFocusFrom(x, y, controlPoints, i + 1)

findFocus(x, y, controlPoints) == findFocusFrom(x, y, controlPoints, 0)

\* newControlPoints = [...controlPoints]; newControlPoints[focus] = point:
\* a write past the end leaves the elements in between unwritten
RECURSIVE Holes(_)
Holes(n) == IF n <= 0 THEN <<>> ELSE Append(Holes(n - 1), Hole)

\* the point put in before the element at focus, which stays
ArrayInsert(controlPoints, focus, point) ==
    IF focus < Len(controlPoints)
    THEN SubSeq(controlPoints, 1, focus) \o <<point>>
         \o SubSeq(controlPoints, focus + 1, Len(controlPoints))
    ELSE controlPoints \o Holes(focus - Len(controlPoints)) \o <<point>>

ArraySet(controlPoints, focus, point) ==
    IF focus < Len(controlPoints)
    THEN [controlPoints EXCEPT ![focus + 1] = point]
    ELSE controlPoints \o Holes(focus - Len(controlPoints)) \o <<point>>

\* controlPoints.map(([x, y, z]) => [x + translation[0], y + translation[1], z])
Translate(controlPoints, translation) ==
    [i \in 1..Len(controlPoints) |->
        <<controlPoints[i][1] + translation[1], controlPoints[i][2] + translation[2],
          controlPoints[i][3]>>]

\* the effect of [xy, leftClicked], which runs after a render in which one of
\* them changed; setControlPoints hands the draw effect a new configuration
CursorEffect(a) ==
    IF a.xy = NoXY THEN a
    ELSE LET here == <<a.xy[1], a.xy[2], 0>>
             newFocus == IF a.showControlPoints
                         THEN findFocus(a.xy[1], a.xy[2], a.controlPoints)
                         ELSE Null
             style == a.cursor.cursorStyle
         IN  IF style = "grab"
             THEN IF a.leftClicked
                  THEN [a EXCEPT !.cursor = Grabbing(here, <<0, 0, 0>>)]
                  ELSE IF newFocus # Null
                  THEN [a EXCEPT !.cursor = Pointer(newFocus)]
                  ELSE a
             ELSE IF style = "pointer"
             THEN IF a.leftClicked
                  THEN [a EXCEPT !.cursor = Move(a.cursor.focus)]
                  ELSE IF newFocus = Null
                  THEN [a EXCEPT !.cursor = Grab]
                  ELSE IF newFocus # a.cursor.focus
                  THEN [a EXCEPT !.cursor = Pointer(newFocus)]
                  ELSE a
             ELSE IF style = "move"
             THEN IF a.leftClicked
                  THEN [a EXCEPT !.controlPoints = ArraySet(a.controlPoints, a.cursor.focus, here),
                                 !.redraw = TRUE]
                  ELSE [a EXCEPT !.cursor = Pointer(a.cursor.focus)]
             ELSE LET translation == <<here[1] - a.cursor.translateFrom[1],
                                       here[2] - a.cursor.translateFrom[2],
                                       here[3] - a.cursor.translateFrom[3]>>
                  IN  IF a.leftClicked
                      THEN [a EXCEPT !.cursor = Grabbing(a.cursor.translateFrom, translation)]
                      ELSE [a EXCEPT !.controlPoints = Translate(a.controlPoints, translation),
                                     !.cursor = Grab,
                                     !.redraw = TRUE]

\* Rendered with every setNSteps of the draw effect taken for a change
RenderedOnEverySet(a, b, event) ==
    [b EXCEPT !.redraw = /\ b.curveType = "Bezier"
                         /\ \/ b.redraw
                            \/ AppState(a) # AppState(b)
                            \/ a.cursor.focus # b.cursor.focus
                            \/ (a.cursor.cursorStyle = "grabbing") # (b.cursor.cursorStyle = "grabbing")
                            \/ a.cursor.translation # b.cursor.translation
                            \/ (event = "draw" /\ b.adaptiveSubdivision),
              !.event = event,
              !.runs = IF event = "draw" THEN a.runs + 1 ELSE 0]

\* the render after the handler or effect named event took the state a to
\* b: the draw effect is due when the canvas is mounted and the
\* configuration, the focus or the translation is another one; a run of the
\* draw effect counts in runs, any other event starts the count again
Rendered(a, b, event) ==
    [b EXCEPT !.redraw = /\ b.curveType = "Bezier"
                         /\ \/ b.redraw
                            \/ AppState(a) # AppState(b)
                            \/ a.cursor.focus # b.cursor.focus
                            \/ (a.cursor.cursorStyle = "grabbing") # (b.cursor.cursorStyle = "grabbing")
                            \/ a.cursor.translation # b.cursor.translation,
              !.event = event,
              !.runs = IF event = "draw" THEN a.runs + 1 ELSE 0]

\* the object useMemo builds: keys are the properties it has
BezierKeys == {"tag", "showControlPoints", "showSamplePoints", "controlPoints",
               "setControlPoints", "adaptiveSubdivision", "nSteps"}

CatmullKeys == {"tag", "showControlPoints", "showSamplePoints", "controlPoints",
                "setControlPoints", "knotParametrization"}

curve2DConfig(a) ==
    IF a.curveType = "Bezier"
    THEN [keys |-> IF a.adaptiveSubdivision THEN BezierKeys \cup {"setNSteps"} ELSE BezierKeys,
          tag |-> "Bezier",
          showControlPoints |-> a.showControlPoints,
          showSamplePoints |-> a.showSamplePoints,
          controlPoints |-> a.controlPoints,
          adaptiveSubdivision |-> a.adaptiveSubdivision,
          nSteps |-> IF a.adaptiveSubdivision THEN a.adaptiveNSteps ELSE a.nSteps,
          knotParametrization |-> <<>>]
    ELSE [keys |-> CatmullKeys,
          tag |-> "catmull-rom",
          showControlPoints |-> a.showControlPoints,
          showSamplePoints |-> a.showSamplePoints,
          controlPoints |-> a.catmullRomControlPoints,
          adaptiveSubdivision |-> FALSE,
          nSteps |-> Undefined,
          knotParametrization |-> a.knotParametrization]

\* JSON.stringify leaves out the properties whose value is a function or
\* undefined and writes null as null; JSON.parse reads back what was written
JSONStringify(config) ==
    [config EXCEPT !.keys = {k \in config.keys :
                                /\ k \notin {"setControlPoints", "setNSteps"}
                                /\ ~(k = "nSteps" /\ config.nSteps = Undefined)}]

\* config.nSteps and config.adaptiveNSteps of a parsed file
NumberOf(config, key) ==
    IF key \in config.keys /\ key = "nSteps" THEN config.nSteps ELSE Undefined

\* reader.onload of "Upload Configuration"; the file is one a download wrote
Uploaded(a, config) ==
    IF config.tag = "Bezier"
    THEN [a EXCEPT !.curveType = "Bezier",
                   !.controlPoints = config.controlPoints,
                   !.showControlPoints = config.showControlPoints,
                   !.showSamplePoints = config.showSamplePoints,
                   !.adaptiveSubdivision = config.adaptiveSubdivision,
                   !.adaptiveNSteps = NumberOf(config, "adaptiveNSteps"),
                   !.nSteps = NumberOf(config, "nSteps"),
                   !.redraw = TRUE]
    ELSE [a EXCEPT !.curveType = "catmull-rom",
                   !.catmullRomControlPoints = config.controlPoints,
                   !.showControlPoints = config.showControlPoints,
                   !.showSamplePoints = config.showSamplePoints,
                   !.knotParametrization = config.knotParametrization]

\* App mounts the canvas of another curve type with that canvas's first state
Remounted(a, b) ==
    IF a.curveType = b.curveType THEN b
    ELSE [b EXCEPT !.cursor = Grab, !.leftClicked = FALSE, !.xy = NoXY,
                   !.redraw = (b.curveType = "Bezier")]

\* samplePoints.length of the draw effect
SampleCount(controlPoints) == Len(adaptiveSubdivision(CallerHeap(controlPoints), 1).ret)

\* the draw effect throws on fewer than two control points and on an
\* unwritten one
Undrawable(controlPoints) ==
    \/ Len(controlPoints) < 2
    \/ \E i \in 1..Len(controlPoints) : controlPoints[i] = Hole

\* a caller holding some control points that has called no evaluator yet
Init ==
    /\ ps0 \in SeqsUpTo(Pts, MaxLen) \cup {PlanePs}
    /\ heap = CallerHeap(ps0)
    /\ ps = 1
    /\ call = NoCall
    /\ prev = NoCall
    /\ ncalls = 0
    /\ subdiv = NoSubdivision
    /\ app = InitialApp

\* the caller's calls: calls is the number of calls it makes in all, tss and
\* sels are the parameter sequences and selectors it passes

CallEvaluateBezierCurve(calls, tss) ==
    /\ ncalls < calls
    /\ \E ts \in tss :
          LET r == evaluateBezierCurve(heap, ps, ts)
          IN  /\ heap' = r.heap
              /\ call' = Returned("evaluateBezierCurve", ts, r)
    /\ prev' = call
    /\ ncalls' = ncalls + 1
    /\ UNCHANGED <<ps, ps0, subdiv, app>>

CallAdaptiveSubdivision(calls) ==
    /\ ncalls < calls
    /\ LET r == adaptiveSubdivision(heap, ps)
       IN  /\ heap' = r.heap
           /\ call' = Returned("adaptiveSubdivision", <<>>, r)
    /\ prev' = call
    /\ ncalls' = ncalls + 1
    /\ UNCHANGED <<ps, ps0, subdiv, app>>

CallUniformBSpline(calls, tss) ==
    /\ ncalls < calls
    /\ \E ts \in tss :
          LET r == uniformBSpline(heap, ps, ts)
          IN  /\ heap' = r.heap
              /\ call' = Returned("uniformBSpline", ts, r)
    /\ prev' = call
    /\ ncalls' = ncalls + 1
    /\ UNCHANGED <<ps, ps0, subdiv, app>>

CallQuadraticUniformBSpline(calls, tss) ==
    /\ ncalls < calls
    /\ \E ts \in tss :
          LET r == quadraticUniformBSpline(heap, ps, ts)
          IN  /\ heap' = r.heap
              /\ call' = Returned("quadraticUniformBSpline", ts, r)
    /\ prev' = call
    /\ ncalls' = ncalls + 1
    /\ UNCHANGED <<ps, ps0, subdiv, app>>

CallCubicCatmullRomSpline(calls, sels) ==
    /\ ncalls < calls
    /\ \E sel \in sels :
          LET r == cubicCatmullRomSpline(heap, ps, sel)
          IN  /\ heap' = r.heap
              /\ call' = ReturnedSamples(sel, r)
    /\ prev' = call
    /\ ncalls' = ncalls + 1
    /\ UNCHANGED <<ps, ps0, subdiv, app>>

\* one call of one evaluator, with any arguments
Next ==
    \/ CallEvaluateBezierCurve(1, AllTs)
    \/ CallAdaptiveSubdivision(1)
    \/ CallUniformBSpline(1, AllTs)
    \/ CallQuadraticUniformBSpline(1, AllTs)
    \/ CallCubicCatmullRomSpline(1, Selectors)

Spec == Init /\ [][Next]_vars

\* a caller that calls evaluators several times on the same control points
RepeatPts == {<<0, 0, 0>>, <<2 * One, One, One>>}

RepeatTs == {<<Quarter, One>>}

RepeatSelectors ==
    {sel \in Selectors : sel.chordal = sel.centripetal /\ sel.uniform # sel.chordal}

InitRepeat ==
    /\ ps0 \in SeqsUpTo(RepeatPts, MaxLen)
    /\ heap = CallerHeap(ps0)
    /\ ps = 1
    /\ call = NoCall
    /\ prev = NoCall
    /\ ncalls = 0
    /\ subdiv = NoSubdivision
    /\ app = InitialApp

NextRepeat ==
    \/ CallEvaluateBezierCurve(MaxCalls, RepeatTs)
    \/ CallAdaptiveSubdivision(MaxCalls)
    \/ CallUniformBSpline(MaxCalls, RepeatTs)
    \/ CallQuadraticUniformBSpline(MaxCalls, RepeatTs)
    \/ CallCubicCatmullRomSpline(MaxCalls, RepeatSelectors)

SpecRepeat == InitRepeat /\ [][NextRepeat]_vars

\* a caller of cubicCatmullRomSpline: up to MaxLen + 1 control points, so that
\* the longest input has two windows of 4 points
InitCatmull ==
    /\ ps0 \in SeqsUpTo(Pts, MaxLen + 1)
    /\ heap = CallerHeap(ps0)
    /\ ps = 1
    /\ call = NoCall
    /\ prev = NoCall
    /\ ncalls = 0
    /\ subdiv = NoSubdivision
    /\ app = InitialApp

NextCatmull == CallCubicCatmullRomSpline(1, Selectors)

SpecCatmull == InitCatmull /\ [][NextCatmull]_vars

\* adaptiveSubdivision round by round.  subdiv holds the call under way: its
\* position pc, its work stack and its output so far, and for the record the
\* part of the curve each segment stands for: span has <<r, k, d>> for the
\* array r on the stack that came from d bisections and covers the parameters
\* from k / 2^d to (k + 1) / 2^d, and at[i] = <<m, d>> says that out[i] was
\* emitted as the point at the parameter m / 2^d

Span(r) == CHOOSE s \in subdiv.span : s[1] = r

\* the call up to the loop: the length tests, stack = [ps], out = [vec3.clone(ps[0])]
SubdivisionBegin ==
    /\ subdiv.pc = "idle"
    /\ ncalls = 0
    /\ IF Len(heap.arr[ps]) <= 2
       THEN LET r == adaptiveSubdivision(heap, ps)
            IN  /\ heap' = r.heap
                /\ call' = Returned("adaptiveSubdivision", <<>>, r)
                /\ subdiv' = [subdiv EXCEPT !.pc = "done"]
       ELSE LET h1 == vec3clone(heap, heap.arr[ps][1])
            IN  /\ heap' = h1
                /\ call' = call
                /\ subdiv' = [pc |-> "loop", stack |-> <<ps>>, out |-> <<LastVec(h1)>>,
                              span |-> {<<ps, 0, 0>>}, at |-> <<<<0, 0>>>>]
    /\ prev' = call
    /\ ncalls' = ncalls + 1
    /\ UNCHANGED <<ps, ps0, app>>

\* one round of the loop
SubdivisionRound ==
    /\ subdiv.pc = "loop"
    /\ Len(subdiv.stack) > 0
    /\ Span(subdiv.stack[Len(subdiv.stack)])[3] <= MaxDepth
    /\ LET top == subdiv.stack[Len(subdiv.stack)]
           s == SubdivStep(heap, subdiv.stack, subdiv.out)
           k == Span(top)[2]
           d == Span(top)[3]
       IN  /\ heap' = s.heap
           /\ IF s.thrown
              THEN /\ call' = Returned("adaptiveSubdivision", <<>>,
                                       [heap |-> s.heap, thrown |-> TRUE, ret |-> <<>>])
                   /\ subdiv' = [subdiv EXCEPT !.pc = "done"]
              ELSE /\ call' = call
                   /\ subdiv' =
                         [pc |-> "loop", stack |-> s.stack, out |-> s.out,
                          span |-> IF s.p1s # 0
                                   THEN (subdiv.span \ {Span(top)})
                                        \cup {<<s.p1s, 2 * k, d + 1>>, <<s.p2s, 2 * k + 1, d + 1>>}
                                   ELSE subdiv.span \ {Span(top)},
                          at |-> IF s.p1s # 0 THEN subdiv.at
                                 ELSE Append(subdiv.at, <<k + 1, d>>)]
    /\ UNCHANGED <<ps, ps0, prev, ncalls, app>>

\* the loop ends when the stack is empty: return out
SubdivisionReturn ==
    /\ subdiv.pc = "loop"
    /\ Len(subdiv.stack) = 0
    /\ call' = Returned("adaptiveSubdivision", <<>>,
                        [heap |-> heap, thrown |-> FALSE, ret |-> subdiv.out])
    /\ subdiv' = [subdiv EXCEPT !.pc = "done"]
    /\ UNCHANGED <<heap, ps, ps0, prev, ncalls, app>>

NextSubdivision ==
    \/ SubdivisionBegin
    \/ SubdivisionRound
    \/ SubdivisionReturn

\* control points a few steps of the resolution apart
NearPts == {<<1, 1, 0>>, <<2, 1, 0>>, <<2, 2, 0>>}

InitSubdivision ==
    /\ ps0 \in SeqsUpTo(Pts, MaxLen) \cup SeqsUpTo(NearPts, MaxLen)
    /\ heap = CallerHeap(ps0)
    /\ ps = 1
    /\ call = NoCall
    /\ prev = NoCall
    /\ ncalls = 0
    /\ subdiv = NoSubdivision
    /\ app = InitialApp

SpecSubdivision == InitSubdivision /\ [][NextSubdivision]_vars

(* App and its Bezier canvas, one handler or effect at a time.  React runs
   the effects a render leaves due before it handles the next event, so a
   handler runs only when no draw effect is due; the effect of
   [xy, leftClicked] is part of the handler that changes one of them. *)

callerVars == <<heap, ps, ps0, call, prev, ncalls, subdiv>>

\* the pointer positions: one close to the third control point of the first
\* state, one away from all three
Pixels == {<<Half + Unit \div 20, -Half>>, <<0, 0>>}

\* the values typed into "Number of steps"
StepInputs == {1, 50}

\* a handler of the Bezier canvas can run
CanvasIdle == app.curveType = "Bezier" /\ ~app.redraw /\ ~app.crashed

\* a handler of App can run
AppIdle == ~app.redraw /\ ~app.crashed

\* every control point is on the canvas
OnCanvas(controlPoints) ==
    \A i \in 1..Len(controlPoints) :
        /\ controlPoints[i][1] >= -One /\ controlPoints[i][1] <= One
        /\ controlPoints[i][2] >= -One /\ controlPoints[i][2] <= One

\* onMouseMove: setXY([x, y]), then the effect of [xy, leftClicked]
OnMouseMove(pixels) ==
    /\ CanvasIdle
    /\ \E xy \in pixels :
          app' = Rendered(app, CursorEffect([app EXCEPT !.xy = xy]), "onMouseMove")
    /\ UNCHANGED callerVars

\* onMouseLeave: setXY(null); the effect returns at once
OnMouseLeave ==
    /\ CanvasIdle
    /\ app.xy # NoXY
    /\ app' = Rendered(app, CursorEffect([app EXCEPT !.xy = NoXY]), "onMouseLeave")
    /\ UNCHANGED callerVars

\* onMouseDown with button 0: setLeftClicked(true), the effect if that is a
\* change; the user starts no translation with a control point off the canvas
OnMouseDown ==
    /\ CanvasIdle
    /\ app.xy # NoXY
    /\ app.cursor.cursorStyle = "grab" => OnCanvas(app.controlPoints)
    /\ app' = Rendered(app,
                       IF app.leftClicked THEN app
                       ELSE CursorEffect([app EXCEPT !.leftClicked = TRUE]),
                       "onMouseDown")
    /\ UNCHANGED callerVars

\* onMouseUp with button 0: setLeftClicked(false), the effect if that is a change
OnMouseUp ==
    /\ CanvasIdle
    /\ app.xy # NoXY
    /\ app' = Rendered(app,
                       IF app.leftClicked
                       THEN CursorEffect([app EXCEPT !.leftClicked = FALSE])
                       ELSE app,
                       "onMouseUp")
    /\ UNCHANGED callerVars

\* onContextMenu without the test of the cursor
onContextMenuAnyCursor(a) ==
    IF a.xy # NoXY /\ a.showControlPoints
    THEN [a EXCEPT !.controlPoints = Append(a.controlPoints, <<a.xy[1], a.xy[2], 0>>),
                   !.redraw = TRUE]
    ELSE a

\* if (xy && cursor.cursorStyle === 'grab' && config.showControlPoints)
\*     config.setControlPoints([...config.controlPoints, [xy[0], xy[1], 0]])
onContextMenu(a) ==
    IF a.xy # NoXY /\ a.cursor.cursorStyle = "grab" /\ a.showControlPoints
    THEN [a EXCEPT !.controlPoints = Append(a.controlPoints, <<a.xy[1], a.xy[2], 0>>),
                   !.redraw = TRUE]
    ELSE a

\* onContextMenu; the user adds up to MaxPoints control points
OnContextMenu ==
    /\ CanvasIdle
    /\ Len(onContextMenu(app).controlPoints) <= MaxPoints
    /\ app' = Rendered(app, onContextMenu(app), "onContextMenu")
    /\ UNCHANGED callerVars

\* the draw effect: adaptiveSubdivision and setNSteps(samplePoints.length),
\* which is setAdaptiveNSteps, or geometry; then draw
DrawEffect ==
    /\ app.redraw
    /\ ~app.crashed
    /\ app.curveType = "Bezier"
    /\ app' = IF Undrawable(app.controlPoints)
              THEN [Rendered(app, app, "draw") EXCEPT !.crashed = TRUE, !.redraw = FALSE]
              ELSE IF app.adaptiveSubdivision
              THEN Rendered(app,
                            [app EXCEPT !.adaptiveNSteps = SampleCount(app.controlPoints),
                                        !.redraw = FALSE],
                            "draw")
              ELSE Rendered(app, [app EXCEPT !.redraw = FALSE], "draw")
    /\ UNCHANGED callerVars

\* the checkbox "Adaptive Subdivision"
AdaptiveSubdivisionChange ==
    /\ AppIdle
    /\ app.curveType = "Bezier"
    /\ app' = Rendered(app, [app EXCEPT !.adaptiveSubdivision = ~app.adaptiveSubdivision],
                       "adaptiveSubdivisionChange")
    /\ UNCHANGED callerVars

\* the input "Number of steps": setNSteps(clip(Number(e.target.value), minNSteps, maxNSteps))
clip(x, min, max) == IF x < min THEN min ELSE IF x > max THEN max ELSE x

NStepsChange(values) ==
    /\ AppIdle
    /\ app.curveType = "Bezier"
    /\ ~app.adaptiveSubdivision
    /\ \E value \in values :
          app' = Rendered(app, [app EXCEPT !.nSteps = clip(value, minNSteps, maxNSteps)],
                          "nStepsChange")
    /\ UNCHANGED callerVars

\* the checkboxes "Show control points" and "Show sample points"
ShowControlPointsChange ==
    /\ AppIdle
    /\ app' = Rendered(app, [app EXCEPT !.showControlPoints = ~app.showControlPoints],
                       "showControlPointsChange")
    /\ UNCHANGED callerVars

ShowSamplePointsChange ==
    /\ AppIdle
    /\ app' = Rendered(app, [app EXCEPT !.showSamplePoints = ~app.showSamplePoints],
                       "showSamplePointsChange")
    /\ UNCHANGED callerVars

\* the select "Type of curves"
CurveTypeChange ==
    /\ AppIdle
    /\ \E value \in {"Bezier", "catmull-rom"} :
          app' = Rendered(app, Remounted(app, [app EXCEPT !.curveType = value]),
                          "curveTypeChange")
    /\ UNCHANGED callerVars

\* the checkboxes of the knot parametrizations; kinds are those the user changes
KnotParametrizationChange(kinds) ==
    /\ AppIdle
    /\ app.curveType = "catmull-rom"
    /\ \E kind \in kinds :
          app' = Rendered(app,
                          [app EXCEPT !.knotParametrization[kind] =
                                          ~app.knotParametrization[kind]],
                          "knotParametrizationChange")
    /\ UNCHANGED callerVars

\* "Download Configuration": JSON.stringify(curve2DConfig) goes to config.json
DownloadConfiguration ==
    /\ AppIdle
    /\ app' = Rendered(app,
                       [app EXCEPT !.file = JSONStringify(curve2DConfig(app)),
                                   !.saved = AppState(app)],
                       "download")
    /\ UNCHANGED callerVars

\* "Upload Configuration" with the file of the last download
UploadConfiguration ==
    /\ AppIdle
    /\ app.file # NoFile
    /\ app.uploads < MaxUploads
    /\ app' = Rendered(app,
                       Remounted(app, [Uploaded(app, app.file)
                                          EXCEPT !.uploads = app.uploads + 1]),
                       "upload")
    /\ UNCHANGED callerVars

InitApp ==
    /\ ps0 = <<>>
    /\ heap = CallerHeap(ps0)
    /\ ps = 1
    /\ call = NoCall
    /\ prev = NoCall
    /\ ncalls = 0
    /\ subdiv = NoSubdivision
    /\ app = InitialApp

\* the user at the Bezier canvas
NextCanvas ==
    \/ OnMouseMove(Pixels)
    \/ OnMouseLeave
    \/ OnMouseDown
    \/ OnMouseUp
    \/ OnContextMenu
    \/ ShowControlPointsChange
    \/ UploadConfiguration
    \/ DrawEffect

\* the user has downloaded the configuration of the first state
InitCanvas ==
    /\ ps0 = <<>>
    /\ heap = CallerHeap(ps0)
    /\ ps = 1
    /\ call = NoCall
    /\ prev = NoCall
    /\ ncalls = 0
    /\ subdiv = NoSubdivision
    /\ app = [InitialApp EXCEPT !.file = JSONStringify(curve2DConfig(InitialApp)),
                                !.saved = AppState(InitialApp),
                                !.event = "download"]

SpecCanvas == InitCanvas /\ [][NextCanvas]_vars

\* the user at the controls of App
NextConfig ==
    \/ AdaptiveSubdivisionChange
    \/ NStepsChange(StepInputs)
    \/ ShowSamplePointsChange
    \/ CurveTypeChange
    \/ KnotParametrizationChange({"chordal"})
    \/ DownloadConfiguration
    \/ UploadConfiguration
    \/ DrawEffect

SpecConfig == InitApp /\ [][NextConfig]_vars

\* the user editing the control points, with adaptive subdivision at will
NextDraw ==
    \/ OnMouseMove(Pixels)
    \/ OnMouseDown
    \/ OnMouseUp
    \/ OnContextMenu
    \/ AdaptiveSubdivisionChange
    \/ DrawEffect

SpecDraw == InitApp /\ [][NextDraw]_vars

(* ------------------------------ properties ----------------------------- *)

IsBezierCall == call.fn = "evaluateBezierCurve" /\ Len(ps0) >= 2

RECURSIVE Binom(_, _)
Binom(n, k) == IF k = 0 \/ k = n THEN 1 ELSE Binom(n - 1, k - 1) + Binom(n - 1, k)

RECURSIVE IPow(_, _)
IPow(x, n) == IF n = 0 THEN 1 ELSE x * IPow(x, n - 1)

RECURSIVE BernsteinSum(_, _, _, _)
BernsteinSum(P, q, c, i) ==
    LET n == Len(P) - 1
    IN  IF i > n THEN 0
        ELSE Binom(n, i) * IPow(4 - q, n - i) * IPow(q, i) * P[i + 1][c]
             + BernsteinSum(P, q, c, i + 1)

\* the point of the Bezier curve of the control points P at the parameter t,
\* a multiple of 1/4, in Bernstein form: sum of C(n,i) (1-t)^(n-i) t^i P_i
BernsteinPoint(P, t) ==
    LET q == t \div Quarter
        d == 4 ^ (Len(P) - 1)
    IN  <<BernsteinSum(P, q, 1, 0) \div d, BernsteinSum(P, q, 2, 0) \div d,
          BernsteinSum(P, q, 3, 0) \div d>>

\* C1: for >= 2 control points and a parameter sequence of length m (0
\* included) evaluateBezierCurve returns exactly m points, and the k-th point
\* is the curve position at ts[k]
C1_OnePointPerParameter ==
    IsBezierCall =>
        /\ ~call.thrown
        /\ Len(call.ret) = Len(call.ts)
        /\ \A k \in 1..Len(call.ts) :
              heap.vec[call.ret[k]] = BernsteinPoint(ps0, call.ts[k])

C1_Witness ==
    /\ IsBezierCall
    /\ Len(ps0) >= 3
    /\ Len(call.ts) = 2
    /\ call.ts[1] > call.ts[2]
    /\ heap.vec[call.ret[1]] # heap.vec[call.ret[2]]

\* C2: for >= 2 control points evaluateBezierCurve returns the first control
\* point at t = 0 and the last control point at t = 1
C2_Endpoints ==
    IsBezierCall =>
        \A k \in 1..Len(call.ret) :
            /\ call.ts[k] = 0 => heap.vec[call.ret[k]] = ps0[1]
            /\ call.ts[k] = One => heap.vec[call.ret[k]] = ps0[Len(ps0)]

C2_Witness ==
    /\ IsBezierCall
    /\ Len(ps0) >= 3
    /\ ps0[1] # ps0[Len(ps0)]
    /\ call.ts = <<0, One>>
    /\ heap.vec[call.ret[1]] = ps0[1]
    /\ heap.vec[call.ret[2]] = ps0[Len(ps0)]

\* one round of the De Casteljau recurrence on a sequence of points:
\* B_{j+1,i} = (1 - t) * B_{j,i} + t * B_{j,i+1}
CasteljauRound(B, t) ==
    [i \in 1..(Len(B) - 1) |->
        <<FMul(One - t, B[i][1]) + FMul(t, B[i + 1][1]),
          FMul(One - t, B[i][2]) + FMul(t, B[i + 1][2]),
          FMul(One - t, B[i][3]) + FMul(t, B[i + 1][3])>>]

\* the sequence B_{j,0}, B_{j,1}, ... after j rounds
RECURSIVE CasteljauRounds(_, _, _)
CasteljauRounds(B, t, j) ==
    IF j = 0 THEN B ELSE CasteljauRounds(CasteljauRound(B, t), t, j - 1)

\* C3: the point returned for t is B_{n,0} of the De Casteljau recurrence on
\* the caller's control points P_0..P_n: n rounds, each one point shorter,
\* leave the single point that is returned, and every t starts from a fresh
\* copy of the control points (the k-th working array is array 1 + k)
C3_DeCasteljau ==
    IsBezierCall =>
        \A k \in 1..Len(call.ret) :
            LET n == Len(ps0) - 1
                B == CasteljauRounds(ps0, call.ts[k], n)
            IN  /\ Len(B) = 1
                /\ heap.vec[call.ret[k]] = B[1]
                /\ heap.arr[1 + k] = <<call.ret[k]>>

C3_Witness ==
    /\ IsBezierCall
    /\ Len(ps0) = MaxLen
    /\ call.ts = <<Quarter, Quarter>>
    /\ heap.vec[call.ret[1]] \notin {ps0[i] : i \in 1..Len(ps0)}
    /\ heap.vec[call.ret[2]] = heap.vec[call.ret[1]]

\* C4: with exactly 2 control points a and b the point returned for t is
\* (1 - t) * a + t * b in x, y and z, and for t = 0.5 it is the midpoint
C4_TwoPointLerp ==
    (IsBezierCall /\ Len(ps0) = 2) =>
        \A k \in 1..Len(call.ret) : \A c \in 1..3 :
            LET t == call.ts[k]
                r == heap.vec[call.ret[k]][c]
            IN  /\ r = FMul(One - t, ps0[1][c]) + FMul(t, ps0[2][c])
                /\ t = Half => 2 * r = ps0[1][c] + ps0[2][c]

C4_Witness ==
    /\ IsBezierCall
    /\ Len(ps0) = 2
    /\ \A c \in 1..3 : ps0[1][c] # ps0[2][c]
    /\ call.ts = <<Half>>
    /\ \A c \in 1..3 : 2 * heap.vec[call.ret[1]][c] = ps0[1][c] + ps0[2][c]

\* the fewest control points each evaluator is specified to accept
MinPoints(fn) ==
    CASE fn = "evaluateBezierCurve" -> 2
      [] fn = "uniformBSpline" -> 2
      [] fn = "adaptiveSubdivision" -> 2
      [] fn = "quadraticUniformBSpline" -> 3
      [] fn = "cubicCatmullRomSpline" -> 4

\* C5: every evaluator throws, returning nothing, exactly when it is given
\* fewer control points than its minimum, whatever ts or the selector is
C5_InsufficientControlPoints ==
    call.fn # "none" =>
        /\ call.thrown <=> Len(ps0) < MinPoints(call.fn)
        /\ call.thrown => call.ret = <<>> /\ call.vals = <<>>

C5_Witness ==
    /\ call.fn = "cubicCatmullRomSpline"
    /\ Len(ps0) = 3
    /\ call.sel = [uniform |-> FALSE, chordal |-> FALSE, centripetal |-> FALSE]
    /\ call.thrown

\* C6: after a call of any evaluator, whether it returned or threw, the
\* caller's array holds the same objects in the same order and every one of
\* them has the coordinates it had before the call
C6_InputNotMutated ==
    call.fn # "none" =>
        /\ heap.arr[ps] = [i \in 1..Len(ps0) |-> i]
        /\ Vals(heap, heap.arr[ps]) = ps0

C6_Witness ==
    /\ call.fn = "adaptiveSubdivision"
    /\ Len(call.ret) > 2
    /\ Len(heap.vec) > Len(ps0) + Len(call.ret)
    /\ Vals(heap, heap.arr[ps]) = ps0

\* the objects a call returned
Returns(c) ==
    IF c.thrown THEN {}
    ELSE IF c.fn = "cubicCatmullRomSpline"
    THEN {c.ret.uniformResult[i] : i \in 1..Len(c.ret.uniformResult)}
         \cup {c.ret.chordalResult[i] : i \in 1..Len(c.ret.chordalResult)}
         \cup {c.ret.centripetalResult[i] : i \in 1..Len(c.ret.centripetalResult)}
    ELSE {c.ret[i] : i \in 1..Len(c.ret)}

\* the caller's control points: the objects its array held before the call
ControlPoints == 1..Len(ps0)

\* C7: no point an evaluator returns is one of the caller's control points
C7_FreshOutputs == Returns(call) \cap ControlPoints = {}

\* C7 holds of every evaluator but adaptiveSubdivision
C7_FreshOutputsOfOthers ==
    call.fn # "adaptiveSubdivision" => Returns(call) \cap ControlPoints = {}

\* what the evaluator of the call c returns when it is the first call a caller
\* holding the control points P makes
Fresh(c, P) ==
    CASE c.fn = "evaluateBezierCurve" ->
            Returned(c.fn, c.ts, evaluateBezierCurve(CallerHeap(P), 1, c.ts))
      [] c.fn = "uniformBSpline" ->
            Returned(c.fn, c.ts, uniformBSpline(CallerHeap(P), 1, c.ts))
      [] c.fn = "quadraticUniformBSpline" ->
            Returned(c.fn, c.ts, quadraticUniformBSpline(CallerHeap(P), 1, c.ts))
      [] c.fn = "adaptiveSubdivision" ->
            Returned(c.fn, c.ts, adaptiveSubdivision(CallerHeap(P), 1))
      [] c.fn = "cubicCatmullRomSpline" ->
            ReturnedSamples(c.sel, cubicCatmullRomSpline(CallerHeap(P), 1, c.sel))

SameArguments(c, d) ==
    /\ c.fn = d.fn
    /\ c.ts = d.ts
    /\ c.fn = "cubicCatmullRomSpline" => c.sel = d.sel

\* C8: a call that repeats the call before it with the same arguments returns
\* points of the same coordinates, and whatever calls came before, a call
\* returns what it returns as the first call on these control points
C8_Deterministic ==
    call.fn # "none" =>
        /\ SameArguments(prev, call) =>
              call.thrown = prev.thrown /\ call.vals = prev.vals
        /\ call.thrown = Fresh(call, ps0).thrown
        /\ call.vals = Fresh(call, ps0).vals

C8_Witness ==
    /\ ncalls = 2
    /\ SameArguments(prev, call)
    /\ call.fn = "adaptiveSubdivision"
    /\ Len(call.ret) > 2
    /\ call.ret # prev.ret
    /\ call.vals = prev.vals

IsSubdivisionCall == call.fn = "adaptiveSubdivision" /\ Len(ps0) >= 2

\* C9: for >= 2 control points adaptiveSubdivision returns at least 2 points,
\* the first equal to the first and the last to the last control point
C9_SubdivisionEndpoints ==
    IsSubdivisionCall =>
        /\ ~call.thrown
        /\ Len(call.ret) >= 2
        /\ call.vals[1] = ps0[1]
        /\ call.vals[Len(call.vals)] = ps0[Len(ps0)]

C9_Witness ==
    /\ IsSubdivisionCall
    /\ Len(call.ret) > 2
    /\ ps0[1] # ps0[Len(ps0)]
    /\ call.vals[1] = ps0[1]
    /\ call.vals[Len(call.vals)] = ps0[Len(ps0)]

\* C10: with exactly 2 control points adaptiveSubdivision subdivides nothing
\* (it makes no array but the one it returns, of two new points) and returns
\* exactly 2 points, equal in order to the control points
C10_TwoPointsDirect ==
    (call.fn = "adaptiveSubdivision" /\ Len(ps0) = 2) =>
        /\ ~call.thrown
        /\ Len(call.ret) = 2
        /\ call.vals = ps0
        /\ Len(heap.arr) = 2
        /\ heap.arr[2] = call.ret

C10_Witness ==
    /\ call.fn = "adaptiveSubdivision"
    /\ Len(ps0) = 2
    /\ ps0[1] # ps0[2]
    /\ call.vals = ps0

IsQuadraticCall == call.fn = "quadraticUniformBSpline" /\ Len(ps0) >= 3

\* C14: for >= 3 control points and m parameters quadraticUniformBSpline
\* returns m points, the k-th being the second point of the pair that is left
\* when the round of pairwise interpolation at ts[k] (the round of C3) is
\* repeated until 2 points remain, i.e. after Len(ps0) - 2 rounds
C14_QuadraticReduction ==
    IsQuadraticCall =>
        /\ ~call.thrown
        /\ Len(call.ret) = Len(call.ts)
        /\ \A k \in 1..Len(call.ret) :
              LET B == CasteljauRounds(ps0, call.ts[k], Len(ps0) - 2)
              IN  Len(B) = 2 /\ call.vals[k] = B[2]

\* what of C14 the code does: one point per parameter, the point at index 1
\* of a working array of length 2
C14_SecondOfTwo ==
    IsQuadraticCall =>
        /\ ~call.thrown
        /\ Len(call.ret) = Len(call.ts)
        /\ \A k \in 1..Len(call.ret) :
              Len(heap.arr[1 + k]) = 2 /\ heap.arr[1 + k][2] = call.ret[k]

\* C15: with exactly 3 control points p0, p1, p2 quadraticUniformBSpline
\* returns lerp(lerp(p0, p1, t), lerp(p1, p2, t), t) for every t, and
\* (1, 0.25, 0) for (0,0,0), (1,0,0), (2,1,0) and t = 0.5
C15_ThreePointQuadratic ==
    (IsQuadraticCall /\ Len(ps0) = 3) =>
        \A k \in 1..Len(call.ret) :
            LET t == call.ts[k]
            IN  /\ call.vals[k] = LerpVal(LerpVal(ps0[1], ps0[2], t),
                                          LerpVal(ps0[2], ps0[3], t), t)
                /\ (ps0 = PlanePs /\ t = Half) => call.vals[k] = <<One, Quarter, 0>>

\* what the code returns with 3 control points: the second one, whatever t is
QuadraticOfThree ==
    (IsQuadraticCall /\ Len(ps0) = 3) =>
        \A k \in 1..Len(call.ret) : call.vals[k] = ps0[2]

\* one round of the recurrence of the implementation notes of App:
\* B_{j+1,i} = t * B_{j,i} + (1 - t) * B_{j,i+1}
NotesRound(B, t) ==
    [i \in 1..(Len(B) - 1) |->
        <<FMul(t, B[i][1]) + FMul(One - t, B[i + 1][1]),
          FMul(t, B[i][2]) + FMul(One - t, B[i + 1][2]),
          FMul(t, B[i][3]) + FMul(One - t, B[i + 1][3])>>]

RECURSIVE NotesRounds(_, _, _)
NotesRounds(B, t, j) ==
    IF j = 0 THEN B ELSE NotesRounds(NotesRound(B, t), t, j - 1)

\* C20: the point evaluateBezierCurve returns for t_k is B_{n,0} of the
\* recurrence of the implementation notes, which weights the point of the
\* lower index by t_k and the point of the higher index by 1 - t_k
C20_NotesRecurrence ==
    IsBezierCall =>
        \A k \in 1..Len(call.ret) :
            heap.vec[call.ret[k]] = NotesRounds(ps0, call.ts[k], Len(ps0) - 1)[1]

\* the recurrence of the notes gives the curve at 1 - t
NotesReversed ==
    IsBezierCall =>
        \A k \in 1..Len(call.ret) :
            BernsteinPoint(ps0, One - call.ts[k])
                = NotesRounds(ps0, call.ts[k], Len(ps0) - 1)[1]

(* cubicCatmullRomSpline (SpecCatmull) *)

IsCatmullCall == call.fn = "cubicCatmullRomSpline" /\ Len(ps0) >= 4

\* the names of the three sequences and, per name, its flag in the selector
Kinds == {"uniformResult", "chordalResult", "centripetalResult"}

Active(sel, kind) ==
    CASE kind = "uniformResult" -> sel.uniform
      [] kind = "chordalResult" -> sel.chordal
      [] kind = "centripetalResult" -> sel.centripetal

\* the selector with the flag of kind alone
Only(kind) ==
    [uniform |-> kind = "uniformResult", chordal |-> kind = "chordalResult",
     centripetal |-> kind = "centripetalResult"]

\* samples per segment: i = 0..20
PerSegment == NSeg + 1

ConsecutiveDistinct(P) == \A i \in 1..(Len(P) - 1) : P[i] # P[i + 1]

C17_SampleCounts ==
    IsCatmullCall =>
        /\ ~call.thrown
        /\ \A kind \in Kinds :
              IF Active(call.sel, kind)
              THEN /\ Len(call.ret[kind]) = PerSegment * (Len(ps0) - 3)
                   /\ call.vals[kind]
                        = ReturnedSamples(Only(kind),
                              cubicCatmullRomSpline(CallerHeap(ps0), 1, Only(kind))).vals[kind]
              ELSE call.ret[kind] = <<>>
        /\ (call.sel.uniform /\ call.sel.chordal /\ call.sel.centripetal) =>
              /\ Len(call.ret.uniformResult) = Len(call.ret.chordalResult)
              /\ Len(call.ret.chordalResult) = Len(call.ret.centripetalResult)

C17_Witness ==
    /\ IsCatmullCall
    /\ Len(ps0) = 5
    /\ call.sel = [uniform |-> TRUE, chordal |-> FALSE, centripetal |-> TRUE]
    /\ Len(call.ret.uniformResult) = 2 * PerSegment
    /\ Len(call.ret.centripetalResult) = 2 * PerSegment
    /\ call.ret.chordalResult = <<>>
    /\ call.vals.uniformResult # call.vals.centripetalResult

\* the exponent the claim gives each parametrization
ClaimedAlpha(kind) ==
    CASE kind = "uniformResult" -> 0
      [] kind = "chordalResult" -> One
      [] kind = "centripetalResult" -> Half

\* dist(a, b) of two points given by their coordinates
Dist(a, b) ==
    ISqrt((b[1] - a[1]) * (b[1] - a[1]) + (b[2] - a[2]) * (b[2] - a[2])
          + (b[3] - a[3]) * (b[3] - a[3]))

\* the sample i of the segment of the window P[w], .., P[w + 3] for the
\* exponent alpha and tension 0: ((a*t + b)*t + c)*t + d at t = i / 20
ClaimedSample(P, w, alpha, i) ==
    LET co == Coefficients(P[w], P[w + 1], P[w + 2], P[w + 3],
                           Pow(Dist(P[w], P[w + 1]), alpha),
                           Pow(Dist(P[w + 1], P[w + 2]), alpha),
                           Pow(Dist(P[w + 2], P[w + 3]), alpha), 0)
        t == (i * Unit) \div NSeg
    IN  <<Cubic(co, t, 1), Cubic(co, t, 2), Cubic(co, t, 3)>>

\* C18: the three sequences come from the same construction with the
\* exponents 0 (uniform), 1 (chordal), 0.5 (centripetal) and tension 0:
\* sample i of segment k is the cubic of the window ps[k..k+3] at t = i / 20
C18_SameConstruction ==
    IsCatmullCall =>
        \A kind \in Kinds : Active(call.sel, kind) =>
            \A k \in 0..(Len(ps0) - 4) : \A i \in 0..NSeg :
                call.vals[kind][PerSegment * k + i + 1]
                    = ClaimedSample(ps0, k + 1, ClaimedAlpha(kind), i)

C18_Witness ==
    /\ IsCatmullCall
    /\ Len(ps0) = 5
    /\ ConsecutiveDistinct(ps0)
    /\ call.sel = [uniform |-> TRUE, chordal |-> TRUE, centripetal |-> TRUE]
    /\ call.vals.chordalResult # call.vals.centripetalResult
    /\ call.vals.uniformResult # call.vals.chordalResult
    /\ call.vals.chordalResult[PerSegment + 11] = ClaimedSample(ps0, 2, One, 10)

HasNaN(v) == v[1] = NaN \/ v[2] = NaN \/ v[3] = NaN

\* C19: cubicCatmullRomSpline never returns a sample with a not-a-number
\* coordinate: when a knot spacing is 0 it throws or leaves the segment out
C19_NoNaNSamples ==
    (IsCatmullCall /\ ~call.thrown) =>
        \A kind \in Kinds : \A j \in 1..Len(call.vals[kind]) :
            ~HasNaN(call.vals[kind][j])

\* not-a-number samples come from coinciding consecutive control points
\* under chordal or centripetal only
NaNOnlyDegenerate ==
    (IsCatmullCall /\ ~call.thrown) =>
        /\ \A j \in 1..Len(call.vals.uniformResult) : ~HasNaN(call.vals.uniformResult[j])
        /\ ConsecutiveDistinct(ps0) =>
              \A kind \in Kinds : \A j \in 1..Len(call.vals[kind]) :
                  ~HasNaN(call.vals[kind][j])

\* the coefficients of the window P[w..w+3] with the tangents
\* m1 = (p2 - p0) / 2 and m2 = (p3 - p1) / 2
UniformCoefficients(P, w) ==
    LET p0 == P[w]
        p1 == P[w + 1]
        p2 == P[w + 2]
        p3 == P[w + 3]
        m1 == <<(p2[1] - p0[1]) \div 2, (p2[2] - p0[2]) \div 2, (p2[3] - p0[3]) \div 2>>
        m2 == <<(p3[1] - p1[1]) \div 2, (p3[2] - p1[2]) \div 2, (p3[3] - p1[3]) \div 2>>
    IN  [a |-> <<2 * (p1[1] - p2[1]) + m1[1] + m2[1],
                 2 * (p1[2] - p2[2]) + m1[2] + m2[2],
                 2 * (p1[3] - p2[3]) + m1[3] + m2[3]>>,
         b |-> <<-3 * (p1[1] - p2[1]) - 2 * m1[1] - m2[1],
                 -3 * (p1[2] - p2[2]) - 2 * m1[2] - m2[2],
                 -3 * (p1[3] - p2[3]) - 2 * m1[3] - m2[3]>>,
         c |-> m1,
         d |-> p1]

\* C27: under uniform parametrization the knot spacings t01, t12, t23 are 1
\* for every input, coincident consecutive control points included, so
\* nothing is divided by 0, the tangents are m1 = (p2 - p0) / 2 and
\* m2 = (p3 - p1) / 2, and every uniform sample has well-defined coordinates
C27_UniformSpacing ==
    (IsCatmullCall /\ call.sel.uniform) =>
        /\ ~call.thrown
        /\ \A w \in 1..(Len(ps0) - 1) : Pow(Dist(ps0[w], ps0[w + 1]), ClaimedAlpha("uniformResult")) = One
        /\ \A k \in 0..(Len(ps0) - 4) :
              LET co == UniformCoefficients(ps0, k + 1)
              IN  \A i \in 0..NSeg :
                    LET t == (i * Unit) \div NSeg
                        sample == call.vals.uniformResult[PerSegment * k + i + 1]
                    IN  /\ ~HasNaN(sample)
                        /\ sample = <<Cubic(co, t, 1), Cubic(co, t, 2), Cubic(co, t, 3)>>

\* a call under uniform parametrization on control points of which the
\* first two coincide returned a segment from ps[1] to ps[2]
C27_Witness ==
    /\ IsCatmullCall
    /\ call.sel = Only("uniformResult")
    /\ ps0[1] = ps0[2]
    /\ ps0[2] # ps0[3]
    /\ Len(call.vals.uniformResult) >= PerSegment
    /\ ~HasNaN(call.vals.uniformResult[NSeg \div 2 + 1])
    /\ call.vals.uniformResult[1] = ps0[2]
    /\ call.vals.uniformResult[PerSegment] = ps0[3]
    /\ call.vals.uniformResult[NSeg \div 2 + 1] # ps0[2]

(* adaptiveSubdivision, round by round (SpecSubdivision) *)

\* the parameters <<m, d>> stand for m / 2^d
ParamLess(a, b) == a[1] * (2 ^ b[2]) < b[1] * (2 ^ a[2])

ParamEq(a, b) == a[1] * (2 ^ b[2]) = b[1] * (2 ^ a[2])

\* the first and the last parameter of the span of the array r
SpanLo(r) == <<Span(r)[2], Span(r)[3]>>

SpanHi(r) == <<Span(r)[2] + 1, Span(r)[3]>>

\* the round-by-round call returns what the call in one piece returns
SubdivisionAgrees ==
    subdiv.pc = "done" =>
        call = Returned("adaptiveSubdivision", <<>>, adaptiveSubdivision(CallerHeap(ps0), 1))

\* C11: the points are emitted in strictly increasing parameter order.  At
\* every moment of the loop the parameters of the points emitted so far
\* increase strictly, and the segments still on the stack, read from the top
\* down, continue the curve from the last emitted point to its end without a
\* gap: each begins, in parameter and in coordinates, where the one before
\* it ends, so that the left half of a bisected segment is emitted before
\* anything of its right half
C11_IncreasingOrder ==
    subdiv.at # <<>> =>
        LET at == subdiv.at
            stack == subdiv.stack
            n == Len(stack)
            lastOut == subdiv.out[Len(subdiv.out)]
        IN  /\ Len(at) = Len(subdiv.out)
            /\ \A i \in 1..(Len(at) - 1) : ParamLess(at[i], at[i + 1])
            /\ n > 0 =>
                  /\ ParamEq(SpanLo(stack[n]), at[Len(at)])
                  /\ heap.vec[heap.arr[stack[n]][1]] = heap.vec[lastOut]
                  /\ ParamEq(SpanHi(stack[1]), <<1, 0>>)
            /\ \A j \in 1..(n - 1) :
                  /\ ParamEq(SpanLo(stack[j]), SpanHi(stack[j + 1]))
                  /\ heap.vec[heap.arr[stack[j]][1]]
                        = heap.vec[heap.arr[stack[j + 1]][Len(heap.arr[stack[j + 1]])]]
            /\ (n = 0 /\ Len(at) > 1) => ParamEq(at[Len(at)], <<1, 0>>)

C11_Witness ==
    /\ subdiv.pc = "done"
    /\ ~call.thrown
    /\ Len(call.ret) >= 5
    /\ \E i \in 1..(Len(subdiv.at) - 1) : subdiv.at[i][2] # subdiv.at[i + 1][2]
    /\ \A i \in 1..(Len(subdiv.at) - 1) : ParamLess(subdiv.at[i], subdiv.at[i + 1])

\* a round that bisected: the stack is one array higher
Bisected == Len(subdiv.stack) > 0 /\ Len(subdiv'.stack) > Len(subdiv.stack)

\* C12: for every input of >= 2 control points the call comes to its end with
\* a bounded depth of bisection.  What a round does depends only on the
\* coordinates of the segment on top of the stack, and a bisection leaves
\* the left half on top, so the call can only end if no bisection leaves on
\* top a left half with the coordinates of the segment that was bisected
C12_Terminates ==
    [][Bisected =>
          Vals(heap', heap'.arr[subdiv'.stack[Len(subdiv'.stack)]])
            # Vals(heap, heap.arr[subdiv.stack[Len(subdiv.stack)]])]_vars

\* a call that was followed up to MaxDepth bisections and still has work
Stuck ==
    /\ subdiv.pc = "loop"
    /\ Len(subdiv.stack) > 0
    /\ Span(subdiv.stack[Len(subdiv.stack)])[3] > MaxDepth

\* only control points a few steps of the resolution apart get there
StuckOnlyNear == Stuck => ps0 \in SeqsUpTo(NearPts, MaxLen)

\* the control points P with the first and the last one replaced by the origin
EndsReplaced(P) == <<<<0, 0, 0>>>> \o SubSeq(P, 2, Len(P) - 1) \o <<<<0, 0, 0>>>>

\* C26: the result of quadraticUniformBSpline does not depend on the first
\* or on the last control point: it is the result for the same inner points
\* between two other end points.  For 3 control points every returned point
\* is ps[1], for >= 4 the result is that of evaluateBezierCurve on
\* ps[1..len-2]
C26_EndsIgnored ==
    IsQuadraticCall =>
        /\ ~call.thrown
        /\ LET r == quadraticUniformBSpline(CallerHeap(EndsReplaced(ps0)), 1, call.ts)
           IN  Vals(r.heap, r.ret) = call.vals
        /\ Len(ps0) = 3 => \A k \in 1..Len(call.ts) : call.vals[k] = ps0[2]
        /\ Len(ps0) >= 4 =>
              LET r == evaluateBezierCurve(CallerHeap(SubSeq(ps0, 2, Len(ps0) - 1)), 1, call.ts)
              IN  ~r.thrown /\ Vals(r.heap, r.ret) = call.vals

\* a call with 4 control points whose ends differ from their neighbours and
\* from the origin returned a point strictly between the two inner ones
C26_Witness ==
    /\ IsQuadraticCall
    /\ Len(ps0) = 4
    /\ ps0[1] # ps0[2] /\ ps0[4] # ps0[3]
    /\ ps0[1] # <<0, 0, 0>> /\ ps0[4] # <<0, 0, 0>>
    /\ ps0[2] = <<0, 0, 0>> /\ ps0[3] = <<One, 0, 0>>
    /\ call.ts = <<Quarter>>
    /\ call.vals = <<<<Quarter, 0, 0>>>>

(* ------------------ properties of the subdivision rounds --------------- *)

\* the coordinates of the segment on top of the work stack
Top == Vals(heap, heap.arr[subdiv.stack[Len(subdiv.stack)]])

\* the step is a round of the loop
Round == subdiv.pc = "loop" /\ Len(subdiv.stack) > 0 /\ subdiv' # subdiv

\* Lp of the points S: the length of their polygon from S[i] on
RECURSIVE PolygonFrom(_, _)
PolygonFrom(S, i) ==
    IF i >= Len(S) THEN 0 ELSE Dist(S[i], S[i + 1]) + PolygonFrom(S, i + 1)

\* E = (n - 1) / (n + 1) * (Lp - Lc) > 1e-5 for the n + 1 >= 3 points S:
\* Lp - Lc > (n + 1) / (n - 1) * 1e-5, in units of 1 / Unit
ErrorExceeds(S) ==
    LET n == Len(S) - 1
    IN  PolygonFrom(S, 1) - Dist(S[1], S[Len(S)])
           > ((n + 1) * Unit) \div (ThresholdInv * (n - 1))

\* the round emitted exactly one point, the last one of the popped segment
EmitsLast ==
    /\ subdiv'.stack = SubSeq(subdiv.stack, 1, Len(subdiv.stack) - 1)
    /\ Len(subdiv'.out) = Len(subdiv.out) + 1
    /\ SubSeq(subdiv'.out, 1, Len(subdiv.out)) = subdiv.out
    /\ heap'.vec[subdiv'.out[Len(subdiv'.out)]] = Top[Len(Top)]

C23_Bisecting ==
    /\ subdiv.pc = "loop"
    /\ Len(ps0) >= 3
    /\ ErrorExceeds(ps0)
    /\ Len(subdiv.out) >= 2
    /\ Len(subdiv.stack) >= 1

\* one De Casteljau round at t = 0.5 on stored coordinates: the midpoints of
\* neighbours, each coordinate rounded to the nearest value
MidRound(B) ==
    [i \in 1..(Len(B) - 1) |->
        <<RoundHalfEven(B[i][1] + B[i + 1][1], 2),
          RoundHalfEven(B[i][2] + B[i + 1][2], 2),
          RoundHalfEven(B[i][3] + B[i + 1][3], 2)>>]

\* round j, round 0 being the segment itself
RECURSIVE MidRounds(_, _)
MidRounds(B, j) == IF j = 0 THEN B ELSE MidRounds(MidRound(B), j - 1)

\* the coordinates of the array at depth d of the stack after the step, the
\* top being at depth 0
Pushed(d) == Vals(heap', heap'.arr[subdiv'.stack[Len(subdiv'.stack) - d]])

\* C24: bisecting a segment of n + 1 points yields a left sequence (on top
\* of the stack) and a right sequence (below it) of n + 1 points each;
\* left[j] is the first and right[n - j] the last point of De Casteljau
\* round j at t = 0.5, so left[0] is the segment's first point, right[n] its
\* last point, and left[n] = right[0] is its curve point at t = 0.5
C24_BisectionHalves ==
    [][Bisected =>
          LET n == Len(Top) - 1
          IN  /\ Len(subdiv'.stack) = Len(subdiv.stack) + 1
              /\ Len(Pushed(0)) = n + 1
              /\ Len(Pushed(1)) = n + 1
              /\ \A j \in 0..n :
                    /\ Pushed(0)[j + 1] = MidRounds(Top, j)[1]
                    /\ Pushed(1)[n - j + 1] = MidRounds(Top, j)[n + 1 - j]
              /\ Pushed(0)[1] = Top[1]
              /\ Pushed(1)[n + 1] = Top[n + 1]
              /\ Pushed(0)[n + 1] = Pushed(1)[1]
              /\ Pushed(0)[n + 1] = MidRounds(Top, n)[1]]_vars

\* the first round has bisected control points that are not all the same:
\* the halves are on the stack, joined at the curve point at t = 0.5
C24_Witness ==
    /\ subdiv.pc = "loop"
    /\ Len(subdiv.stack) = 2
    /\ Len(subdiv.out) = 1
    /\ Len(ps0) >= 3
    /\ LET left == Vals(heap, heap.arr[subdiv.stack[2]])
           right == Vals(heap, heap.arr[subdiv.stack[1]])
       IN  /\ left[1] = ps0[1]
           /\ right[Len(right)] = ps0[Len(ps0)]
           /\ left[Len(left)] = right[1]
           /\ left[Len(left)] = MidRounds(ps0, Len(ps0) - 1)[1]
           /\ left[Len(left)] # ps0[1]
           /\ left[Len(left)] # ps0[Len(ps0)]

\* C25: every segment that is ever on the work stack has exactly as many
\* points as the input, which has >= 3 once the loop is entered; so no call
\* on >= 2 control points throws, no round pops a segment of 2 points, and
\* every point emitted after the first is the last point of a segment of
\* more than 2 points that was flat enough
C25_SegmentLengths ==
    /\ [](subdiv.pc = "loop" =>
             /\ Len(ps0) >= 3
             /\ \A i \in 1..Len(subdiv.stack) :
                   Len(heap.arr[subdiv.stack[i]]) = Len(ps0))
    /\ []((subdiv.pc = "done" /\ Len(ps0) >= 2) => ~call.thrown)
    /\ [][(Round /\ Len(subdiv'.out) > Len(subdiv.out)) =>
             (Len(Top) > 2 /\ ~ErrorExceeds(Top) /\ EmitsLast)]_vars

\* the loop is three bisections deep and has emitted points; the segments
\* on the stack have the length of the input
C25_Witness ==
    /\ subdiv.pc = "loop"
    /\ Len(ps0) = MaxLen
    /\ Len(subdiv.stack) >= 3
    /\ Len(subdiv.out) >= 3
    /\ \A i \in 1..Len(subdiv.stack) : Len(heap.arr[subdiv.stack[i]]) = MaxLen

(* ---------------------- properties of the canvas ----------------------- *)

\* the step is a run of onContextMenu with the pointer inside the canvas
RightClickInside == app'.event = "onContextMenu" /\ app.xy # NoXY

\* the control points after the step are those before it and the pointer position
AppendsPointer == app'.controlPoints = Append(app.controlPoints, <<app.xy[1], app.xy[2], 0>>)

FocusInList == app.cursor.focus >= 0 /\ app.cursor.focus < Len(app.controlPoints)

\* the step is a pointer move during a drag of a control point of the list
DragMove ==
    /\ app'.event = "onMouseMove"
    /\ app.cursor.cursorStyle = "move"
    /\ app.leftClicked
    /\ FocusInList

\* the step is the release of the left button during a drag
DragRelease ==
    /\ app'.event = "onMouseUp"
    /\ app.cursor.cursorStyle = "move"
    /\ app.leftClicked

\* the step is a press of the left button with the pointer over a control point
DragPress ==
    /\ app'.event = "onMouseDown"
    /\ app.cursor.cursorStyle = "pointer"
    /\ ~app.leftClicked

C22_Released ==
    /\ app.event = "onMouseUp"
    /\ app.cursor.cursorStyle = "pointer"
    /\ app.cursor.focus = 2
    /\ app.controlPoints[3] # InitialApp.controlPoints[3]

\* C28: whenever the cursor state is 'pointer' or 'move', its focus is an
\* index into the control points, 0 <= focus < controlPoints.length
C28_FocusInList ==
    app.cursor.cursorStyle \in {"pointer", "move"} => FocusInList

\* no pointer move of a drag writes a control point outside the list: it
\* leaves the number of control points as it is
DragWritesInList ==
    [][(app'.event = "onMouseMove" /\ app.cursor.cursorStyle = "move" /\ app.leftClicked)
          => Len(app'.controlPoints) = Len(app.controlPoints)]_vars

(* ---------------- properties of download, upload and draw -------------- *)

\* C29: an upload of the file a download wrote restores the state of App at
\* that download: curve type, control points, showControlPoints,
\* showSamplePoints, adaptiveSubdivision, nSteps, adaptiveNSteps and
\* knotParametrization are what they were then
C29_RoundTrip == app.event = "upload" => AppState(app) = app.saved

\* what an upload restores: the properties the file has, under their own
\* names; nSteps of the file is adaptiveNSteps of the download when
\* adaptiveSubdivision was set
UploadRestoresWritten ==
    app.event = "upload" =>
        /\ app.curveType = app.saved.curveType
        /\ app.showControlPoints = app.saved.showControlPoints
        /\ app.showSamplePoints = app.saved.showSamplePoints
        /\ IF app.curveType = "Bezier"
           THEN /\ app.controlPoints = app.saved.controlPoints
                /\ app.adaptiveSubdivision = app.saved.adaptiveSubdivision
                /\ app.adaptiveNSteps = Undefined
                /\ app.nSteps = IF ~app.saved.adaptiveSubdivision THEN app.saved.nSteps
                                ELSE IF app.saved.adaptiveNSteps = Undefined THEN Undefined
                                ELSE app.saved.adaptiveNSteps
           ELSE /\ app.catmullRomControlPoints = app.saved.catmullRomControlPoints
                /\ app.knotParametrization = app.saved.knotParametrization

\* an upload restores the number of steps of the download
UploadRestoresNSteps == app.event = "upload" => app.nSteps = app.saved.nSteps

\* no draw effect is due and the canvas is up
Stable == ~app.redraw /\ ~app.crashed /\ app.curveType = "Bezier"

====
